---------------------------- MODULE Spec2Model ----------------------------
(***************************************************************************)
(* Consent-and-cadence state machine of the Keystone telemetry reporter    *)
(* (packages/core/src/lib/telemetry.ts).                                   *)
(*                                                                         *)
(* The persisted `telemetry` value is undefined, false, or a record        *)
(* {informedAt, device: {lastSentDate}, projects: {path: {lastSentDate}}}. *)
(* Strings are sequences of character codes; calendar dates are the        *)
(* zero-padded fixed-width strings produced by ISO, compared as strings.   *)
(***************************************************************************)
EXTENDS Integers, Sequences, FiniteSets, TLC

\* ------------------------------------------------------------------ bounds
MaxDay == 1
NumPaths == 2
DaysPerMonth == 2

Days == 0..MaxDay
Paths == 1..NumPaths

\* ----------------------------------------------------------------- strings
\* null, distinct from every string
NULL == <<-1>>

\* JavaScript truthiness of a `string | null` value
Truthy(v) == v # NULL /\ v # <<>>

Min2(a, b) == IF a <= b THEN a ELSE b

\* JavaScript `a < b` on two strings: code-unit lexicographic order
StrLT(a, b) ==
  \E i \in 1..(Min2(Len(a), Len(b)) + 1) :
     /\ \A j \in 1..(i - 1) : a[j] = b[j]
     /\ \/ (i > Len(a) /\ i <= Len(b))
        \/ (i <= Len(a) /\ i <= Len(b) /\ a[i] < b[i])

\* JavaScript `a >= b` on two strings
StrGE(a, b) == ~StrLT(a, b)

\* new Date().toISOString().slice(0, 10): fixed-width <<month, day>> fields;
\* day 0 is the last day of a month
ISO(d) ==
  <<(d + DaysPerMonth - 1) \div DaysPerMonth, (d + DaysPerMonth - 1) % DaysPerMonth>>

\* new Date().toJSON(): the date followed by the time of day
ToJSON(d) == ISO(d) \o <<0>>

\* ------------------------------------------------------------ stored value
ZeroRecord ==
  [informedAt |-> NULL,
   device |-> [lastSentDate |-> NULL],
   projects |-> <<>>]

Undefined == [kind |-> "undefined", value |-> ZeroRecord]
OptedOut == [kind |-> "false", value |-> ZeroRecord]
Record(rec) == [kind |-> "record", value |-> rec]

ProjectMaps ==
  UNION {[S -> [lastSentDate : {ISO(d) : d \in Days}]] : S \in SUBSET Paths}

\* the records a store may hold when a process starts: never informed or
\* informed on the first day, each lastSentDate any day's date
TelemetryRecords ==
  [informedAt : {NULL, ToJSON(0)},
   device : [lastSentDate : {NULL} \cup {ISO(d) : d \in Days}],
   projects : ProjectMaps]

StoredValues == {Undefined, OptedOut} \cup {Record(r) : r \in TelemetryRecords}

\* ------------------------------------------------------------- environment
NoEnv == [isCI |-> FALSE, production |-> FALSE, disabledFlag |-> FALSE]

\* no disabling condition, or one of the three
Envs ==
  {NoEnv, [NoEnv EXCEPT !.isCI = TRUE], [NoEnv EXCEPT !.production = TRUE],
   [NoEnv EXCEPT !.disabledFlag = TRUE]}

\* the step of an invocation at which an exception is thrown, if any
FaultPoints ==
  {"load", "informPersist", "projectBuild", "projectSend", "projectPersist",
   "deviceSend", "devicePersist"}
Faults == {"none"} \cup FaultPoints

\* the network during an invocation: requests are delivered or fail
Nets == {"ok", "error"}

VARIABLES
  store,        \* the persisted `telemetry` value
  clock,        \* the current calendar day
  todaysDate,   \* module constant of the running process
  op,           \* the last operation
  cwdArg,       \* its cwd argument (0 when it has none)
  env,          \* the disabling conditions it ran under
  fired,        \* the step at which it threw, or "none"
  pre,          \* the stored value before it
  disclosures,  \* how many times it displayed the disclosure
  reports,      \* the reports it handed to the transport, in order
  surfaced,     \* whether an exception propagated to its caller
  crashed,      \* whether the host process died of an unhandled 'error' event
  sentToday,    \* reports sent per subject on the current calendar day
  optOut        \* where the store is in an opt-out / re-enable cycle

\* projectVersion: '3.0.0'
CurrentVersion == 3

VARIABLES
  version,      \* the schema version the store was last migrated to
  migFrom,      \* the version the store was at before it was last opened
  migWrote,     \* whether a migration then wrote the telemetry value
  migThrew      \* whether a migration then threw

migVars == <<version, migFrom, migWrote, migThrew>>

VARIABLES
  lists,        \* the host's lists: name -> field path -> type name
  fields        \* the field counts last collected from them

fieldVars == <<lists, fields>>

VARIABLES
  procs         \* the runTelemetry invocations in progress, one per process

raceVars == <<procs>>

vars ==
  <<store, clock, todaysDate, op, cwdArg, env, fired, pre, disclosures,
    reports, surfaced, crashed, sentToday, optOut, migVars, fieldVars,
    raceVars>>

\* the device, as a subject next to the project paths
Device == NumPaths + 1
Subjects == Paths \cup {Device}
NoneSent == [s \in Subjects |-> 0]

\* ------------------------------------------------------- engine, functions
\* the outcome of a step: the stored value after it, the disclosures it
\* displayed, the reports it handed to the transport, whether it threw
Outcome(st, shown, sent, threw) ==
  [store |-> st, disclosures |-> shown, reports |-> sent, threw |-> threw]

\* faulty variant: the opt-out sentinel is defaulted like an unset value
getDefaultedTelemetryConfig_DefaultsFalse(st) ==
  IF st.kind \in {"undefined", "false"} THEN Record(ZeroRecord) ELSE st

\* getTelemetryConfig / getDefaultedTelemetryConfig: an undefined store is
\* defaulted in memory to the zero-value record
getDefaultedTelemetryConfig(st) ==
  IF st.kind = "undefined" THEN Record(ZeroRecord) ELSE st

\* faulty variant: the production check is missing
disablingCondition_NoProduction(e) == e.isCI \/ e.disabledFlag

\* ci.isCI || NODE_ENV === 'production' || KEYSTONE_TELEMETRY_DISABLED === '1'
disablingCondition(e) == e.isCI \/ e.production \/ e.disabledFlag

\* faulty variant: > instead of >=
alreadySentToday_Strict(lastSentDate, today) ==
  Truthy(lastSentDate) /\ StrLT(today, lastSentDate)

\* lastSentDate && lastSentDate >= todaysDate
alreadySentToday(lastSentDate, today) ==
  Truthy(lastSentDate) /\ StrGE(lastSentDate, today)

\* faulty variant: informedAt is not updated
setInformedAt_Kept(rec, now) == rec

\* telemetry.informedAt = new Date().toJSON()
setInformedAt(rec, now) == [rec EXCEPT !.informedAt = ToJSON(now)]

\* faulty variant: the projects map is replaced instead of updated
setProjectLastSentDate_Only(rec, cwd, today) ==
  [rec EXCEPT !.projects = [p \in {cwd} |-> [lastSentDate |-> today]]]

\* faulty variant: the project's date is not updated
setProjectLastSentDate_Kept(rec, cwd, today) == rec

\* telemetry.projects[cwd] = { lastSentDate: todaysDate }
setProjectLastSentDate(rec, cwd, today) ==
  [rec EXCEPT !.projects =
     [p \in (DOMAIN rec.projects) \cup {cwd} |->
        IF p = cwd THEN [lastSentDate |-> today] ELSE rec.projects[p]]]

\* faulty variant: the device's date is not updated
setDeviceLastSentDate_Kept(rec, today) == rec

\* telemetry.device = { lastSentDate: todaysDate }
setDeviceLastSentDate(rec, today) ==
  [rec EXCEPT !.device = [lastSentDate |-> today]]

\* telemetry.projects[cwd] ?? { lastSentDate: null }
projectLastSentDate(rec, cwd) ==
  IF cwd \in DOMAIN rec.projects THEN rec.projects[cwd].lastSentDate ELSE NULL

\* inform: display the disclosure, then persist informedAt
inform(st, now, fault) ==
  LET telemetry == getDefaultedTelemetryConfig(st) IN
  IF telemetry.kind = "false" THEN Outcome(st, 0, <<>>, FALSE)
  ELSE IF fault = "informPersist" THEN Outcome(st, 1, <<>>, TRUE)
  ELSE Outcome(Record(setInformedAt(telemetry.value, now)), 1, <<>>, FALSE)

\* sendEvent: https.request(...) may throw before anything is issued;
\* otherwise the request is issued and the function returns at once, whatever
\* the network does with the request later
sendEvent(eventType, previous, throws) ==
  IF throws THEN [issued |-> <<>>, threw |-> TRUE]
  ELSE [issued |-> <<[eventType |-> eventType, previous |-> previous]>>,
        threw |-> FALSE]

\* faulty variant: the date is persisted only once the request was delivered
sendProjectTelemetryEvent_OnDelivery(st, cwd, today, fault, net) ==
  LET telemetry == getDefaultedTelemetryConfig(st) IN
  IF telemetry.kind = "false" THEN Outcome(st, 0, <<>>, FALSE)
  ELSE
    LET lastSentDate == projectLastSentDate(telemetry.value, cwd) IN
    IF alreadySentToday(lastSentDate, today) THEN Outcome(st, 0, <<>>, FALSE)
    ELSE IF fault = "projectBuild" THEN Outcome(st, 0, <<>>, TRUE)
    ELSE
      LET sent == sendEvent("project", lastSentDate, fault = "projectSend") IN
      IF sent.threw THEN Outcome(st, 0, sent.issued, TRUE)
      ELSE IF fault = "projectPersist" THEN Outcome(st, 0, sent.issued, TRUE)
      ELSE IF net # "ok" THEN Outcome(st, 0, sent.issued, FALSE)
      ELSE Outcome(Record(setProjectLastSentDate(telemetry.value, cwd, today)),
                   0, sent.issued, FALSE)

sendProjectTelemetryEvent(st, cwd, today, fault, net) ==
  LET telemetry == getDefaultedTelemetryConfig(st) IN
  IF telemetry.kind = "false" THEN Outcome(st, 0, <<>>, FALSE)
  ELSE
    LET lastSentDate == projectLastSentDate(telemetry.value, cwd) IN
    IF alreadySentToday(lastSentDate, today) THEN Outcome(st, 0, <<>>, FALSE)
    ELSE IF fault = "projectBuild" THEN Outcome(st, 0, <<>>, TRUE)
    ELSE
      LET sent == sendEvent("project", lastSentDate, fault = "projectSend") IN
      IF sent.threw THEN Outcome(st, 0, sent.issued, TRUE)
      ELSE IF fault = "projectPersist" THEN Outcome(st, 0, sent.issued, TRUE)
      ELSE Outcome(Record(setProjectLastSentDate(telemetry.value, cwd, today)),
                   0, sent.issued, FALSE)

sendDeviceTelemetryEvent(st, today, fault, net) ==
  LET telemetry == getDefaultedTelemetryConfig(st) IN
  IF telemetry.kind = "false" THEN Outcome(st, 0, <<>>, FALSE)
  ELSE
    LET lastSentDate == telemetry.value.device.lastSentDate IN
    IF alreadySentToday(lastSentDate, today) THEN Outcome(st, 0, <<>>, FALSE)
    ELSE
      LET sent == sendEvent("device", lastSentDate, fault = "deviceSend") IN
      IF sent.threw THEN Outcome(st, 0, sent.issued, TRUE)
      ELSE IF fault = "devicePersist" THEN Outcome(st, 0, sent.issued, TRUE)
      ELSE Outcome(Record(setDeviceLastSentDate(telemetry.value, today)),
                   0, sent.issued, FALSE)

\* the body of runTelemetry's try block
runTelemetryBody(st, cwd, e, today, now, fault, net) ==
  IF disablingCondition(e) THEN Outcome(st, 0, <<>>, FALSE)
  ELSE IF fault = "load" THEN Outcome(st, 0, <<>>, TRUE)
  ELSE
    LET telemetry == getDefaultedTelemetryConfig(st) IN
    IF telemetry.kind = "false" THEN Outcome(st, 0, <<>>, FALSE)
    ELSE IF ~Truthy(telemetry.value.informedAt) THEN inform(st, now, fault)
    ELSE
      LET project == sendProjectTelemetryEvent(st, cwd, today, fault, net) IN
      IF project.threw THEN project
      ELSE
        LET device == sendDeviceTelemetryEvent(project.store, today, fault, net)
        IN Outcome(device.store, 0, project.reports \o device.reports,
                   device.threw)

\* try { ... } catch (err) { log(err) }: whether an exception thrown in the
\* body reaches the caller
reachesCaller(threw) == FALSE

\* a request that fails emits 'error' on a ClientRequest that has no
\* 'error' listener: nothing in sendEvent handles it and the process dies
unhandledError(sent, net) == sent # <<>> /\ net = "error"

\* ------------------------------------------------------------------ states
\* a process has just loaded the module; the store holds any value
Init ==
  /\ store \in StoredValues
  /\ clock \in Days
  /\ todaysDate = ISO(clock)
  /\ op = "init"
  /\ cwdArg = 0
  /\ env = NoEnv
  /\ fired = "none"
  /\ pre = store
  /\ disclosures = 0
  /\ reports = <<>>
  /\ surfaced = FALSE
  /\ crashed = FALSE
  /\ sentToday = NoneSent
  /\ optOut = "never"
  /\ version = CurrentVersion
  /\ migFrom = CurrentVersion
  /\ migWrote = FALSE
  /\ migThrew = FALSE
  /\ lists = <<>>
  /\ fields = <<>>
  /\ procs = <<>>

\* what an operation other than runTelemetry leaves in the observations
Observed(name) ==
  /\ op' = name
  /\ cwdArg' = 0
  /\ env' = NoEnv
  /\ fired' = "none"
  /\ pre' = store
  /\ disclosures' = 0
  /\ reports' = <<>>
  /\ surfaced' = FALSE
  /\ crashed' = FALSE

\* reports counted per subject: none, one, or more than one
Counted(count, cwd, sent) ==
  [s \in Subjects |->
     LET n == Cardinality({i \in DOMAIN sent :
                 \/ (s = Device /\ sent[i].eventType = "device")
                 \/ (s = cwd /\ sent[i].eventType = "project")})
     IN Min2(count[s] + n, 2)]

\* ----------------------------------------------------------------- actions
\* midnight (UTC) passes
tick ==
  /\ clock < MaxDay
  /\ clock' = clock + 1
  /\ sentToday' = NoneSent
  /\ Observed("tick")
  /\ UNCHANGED <<store, todaysDate, optOut, migVars, fieldVars, raceVars>>

\* a new CLI process loads the module: todaysDate is evaluated once, here
startProcess ==
  /\ todaysDate # ISO(clock)
  /\ todaysDate' = ISO(clock)
  /\ Observed("startProcess")
  /\ UNCHANGED <<store, clock, sentToday, optOut, migVars, fieldVars, raceVars>>

runTelemetry(cwd, e, fault, net) ==
  LET out == runTelemetryBody(store, cwd, e, todaysDate, clock, fault, net) IN
  /\ store' = out.store
  /\ op' = "runTelemetry"
  /\ cwdArg' = cwd
  /\ env' = e
  /\ fired' = IF out.threw THEN fault ELSE "none"
  /\ pre' = store
  /\ disclosures' = out.disclosures
  /\ reports' = out.reports
  /\ surfaced' = reachesCaller(out.threw)
  /\ crashed' = unhandledError(out.reports, net)
  /\ sentToday' = Counted(sentToday, cwd, out.reports)
  /\ optOut' = CASE optOut = "reenabled" /\ out.disclosures > 0 -> "reinformed"
                 [] optOut = "reinformed" -> "never"
                 [] OTHER -> optOut
  /\ UNCHANGED <<clock, todaysDate, migVars, fieldVars, raceVars>>

\* faulty variant: the stored value is deleted whatever it is
enableTelemetry_AlwaysDeletes ==
  /\ store' = Undefined
  /\ optOut' = IF store.kind = "false" THEN "reenabled" ELSE "never"
  /\ sentToday' = NoneSent
  /\ Observed("enableTelemetry")
  /\ UNCHANGED <<clock, todaysDate, migVars, fieldVars, raceVars>>

\* if (store.get('telemetry') === false) store.delete('telemetry')
enableTelemetry ==
  /\ store' = IF store.kind = "false" THEN Undefined ELSE store
  /\ optOut' = IF store.kind = "false" THEN "reenabled" ELSE "never"
  /\ sentToday' = NoneSent
  /\ Observed("enableTelemetry")
  /\ UNCHANGED <<clock, todaysDate, migVars, fieldVars, raceVars>>

disableTelemetry ==
  /\ store' = OptedOut
  /\ optOut' = "disabled"
  /\ sentToday' = NoneSent
  /\ Observed("disableTelemetry")
  /\ UNCHANGED <<clock, todaysDate, migVars, fieldVars, raceVars>>

resetTelemetry ==
  /\ store' = Undefined
  /\ optOut' = "never"
  /\ sentToday' = NoneSent
  /\ Observed("resetTelemetry")
  /\ UNCHANGED <<clock, todaysDate, migVars, fieldVars, raceVars>>

\* every step of the engine completes; the network may fail
Next ==
  \/ tick
  \/ startProcess
  \/ \E cwd \in Paths, e \in Envs, net \in Nets : runTelemetry(cwd, e, "none", net)
  \/ enableTelemetry
  \/ disableTelemetry
  \/ resetTelemetry

Spec == Init /\ [][Next]_vars

\* any one step of an invocation may throw as well
NextFault ==
  \/ tick
  \/ startProcess
  \/ \E cwd \in Paths, e \in Envs, net \in Nets : runTelemetry(cwd, e, "none", net)
  \/ \E cwd \in Paths, fault \in FaultPoints, net \in Nets :
        runTelemetry(cwd, NoEnv, fault, net)
  \/ enableTelemetry
  \/ disableTelemetry
  \/ resetTelemetry

SpecFault == Init /\ [][NextFault]_vars

\* ------------------------------------------------------------------ claims
Ran == op = "runTelemetry"
\* CI detected, NODE_ENV production, or KEYSTONE_TELEMETRY_DISABLED = 1
AnyDisabling == env.isCI \/ env.production \/ env.disabledFlag
NotDisabled == ~AnyDisabling
Informed(st) == st.kind = "record" /\ st.value.informedAt # NULL
NotInformed(st) ==
  st.kind = "undefined" \/ (st.kind = "record" /\ st.value.informedAt = NULL)
NumReports(t) == Cardinality({i \in DOMAIN reports : reports[i].eventType = t})

\* the project lastSentDate a stored value holds for a path (NULL: none)
StoredProjectDate(st, cwd) == projectLastSentDate(st.value, cwd)

\* C1: a run on a store that is undefined or holds a record with informedAt
\* null, under no disabling condition, displays the disclosure exactly once,
\* persists a record whose informedAt is non-null and sends no report.
C1_InformingRun ==
  (Ran /\ NotDisabled /\ NotInformed(pre)) =>
     /\ disclosures = 1
     /\ store.kind = "record"
     /\ store.value.informedAt # NULL
     /\ NumReports("project") = 0
     /\ NumReports("device") = 0

C1_Witness ==
  /\ Ran /\ NotDisabled /\ pre = Undefined
  /\ disclosures = 1
  /\ Informed(store)

C3_ProjectNotDue ==
  (/\ Ran /\ Informed(pre)
   /\ StoredProjectDate(pre, cwdArg) = todaysDate)
  =>
     /\ NumReports("project") = 0
     /\ store.kind = "record"
     /\ StoredProjectDate(store, cwdArg) = StoredProjectDate(pre, cwdArg)

C3_Witness ==
  /\ Ran /\ NotDisabled /\ Informed(pre)
  /\ StoredProjectDate(pre, cwdArg) = todaysDate
  /\ NumReports("project") = 0
  /\ NumReports("device") = 1

C5_AtMostOncePerDay == \A s \in Subjects : sentToday[s] <= 1

\* C6: after disableTelemetry every runTelemetry displays nothing, sends
\* nothing and leaves the stored value false; enableTelemetry then leaves the
\* stored value undefined, and the next run that is not disabled displays the
\* disclosure and sends nothing, so nothing is sent before the disclosure.
C6_OptOutThenReenable ==
  /\ (op = "disableTelemetry") => (store = OptedOut /\ optOut = "disabled")
  /\ (optOut = "disabled") =>
        /\ store = OptedOut
        /\ Ran => (disclosures = 0 /\ reports = <<>> /\ pre = OptedOut)
  /\ (op = "enableTelemetry" /\ pre = OptedOut) =>
        (store = Undefined /\ optOut = "reenabled")
  /\ (optOut = "reenabled") =>
        /\ store = Undefined
        /\ Ran => (disclosures = 0 /\ reports = <<>> /\ ~NotDisabled)
  /\ (optOut = "reinformed" /\ Ran) =>
        /\ pre = Undefined
        /\ disclosures = 1
        /\ reports = <<>>
        /\ Informed(store)

C6_Witness ==
  /\ optOut = "reinformed"
  /\ Ran
  /\ disclosures = 1
  /\ Informed(store)

\* C7: under any disabling condition runTelemetry displays nothing, sends
\* nothing and leaves the stored value as it was, an undefined store included.
C7_DisabledIsNoOp ==
  (Ran /\ AnyDisabling) =>
     /\ disclosures = 0
     /\ reports = <<>>
     /\ store = pre
     /\ ~crashed

C7_Witness ==
  /\ Ran
  /\ env.production
  /\ pre = Undefined
  /\ store = Undefined

\* C8: whatever step of an invocation fails, the transport included,
\* runTelemetry completes normally: no exception reaches the caller and the
\* host process is not brought down.
C8_NeverSurfaces == Ran => (~surfaced /\ ~crashed)

\* C9: on an informed record the device report is sent exactly when
\* device.lastSentDate is not yet todaysDate, whether the project send was
\* skipped, succeeded or failed.
C9_DeviceIndependentOfProject ==
  (/\ Ran /\ NotDisabled /\ Informed(pre)
   /\ fired \in {"none", "projectBuild", "projectSend", "projectPersist"})
  =>
     (NumReports("device") = 1
        <=> ~alreadySentToday(pre.value.device.lastSentDate, todaysDate))

ABSENT == <<-2>>
\* a value that is not a string (a number, say)
NONSTRING == <<-3>>

IsString(v) == v # NULL /\ v # ABSENT /\ v # NONSTRING

\* the project key "default" of version 1
DefaultKey == 0
LegacyKeys == {DefaultKey} \cup Paths

\* a date string with the day out of range, as "not-a-date" is no date
GarbageDate == <<0, DaysPerMonth>>

\* new Date(s).toString() !== 'Invalid Date'
DateValid(s) ==
  /\ Len(s) = 2
  /\ s[1] >= 0
  /\ s[2] \in 0..(DaysPerMonth - 1)

LegacyDates == {ABSENT, NONSTRING, GarbageDate} \cup {ISO(d) : d \in Days}

\* a project entry: null, a non-object (a string, a number), or an object
LegacyEntries ==
  {[type |-> "null", lastSentDate |-> ABSENT],
   [type |-> "other", lastSentDate |-> ABSENT]}
  \cup [type : {"object"}, lastSentDate : LegacyDates]

LegacyDevices ==
  {[present |-> FALSE, lastSentDate |-> ABSENT]}
  \cup [present : {TRUE}, lastSentDate : LegacyDates]

LegacyProjects ==
  {[present |-> FALSE, entries |-> <<>>]}
  \cup [present : {TRUE},
        entries : UNION {[K -> LegacyEntries] : K \in SUBSET LegacyKeys}]

Legacy(rec) == [kind |-> "v1", value |-> rec]

LegacyValues ==
  {Legacy(r) : r \in [device : LegacyDevices, projects : LegacyProjects]}

\* what a migration did: whether it threw, the stored value after it, and
\* whether it called store.set
Migrated(threw, st, wrote) == [threw |-> threw, value |-> st, wrote |-> wrote]

\* a stored record as the '^2.0.0' migration reads it: a version-2 record
\* has a device and objects with a lastSentDate for projects
legacyView(st) ==
  IF st.kind = "v1" THEN st.value
  ELSE [device |-> [present |-> TRUE,
                    lastSentDate |-> st.value.device.lastSentDate],
        projects |-> [present |-> TRUE,
                      entries |-> [k \in DOMAIN st.value.projects |->
                         [type |-> "object",
                          lastSentDate |-> st.value.projects[k].lastSentDate]]]]

\* faulty variant: the legacy "default" entry is copied like a project
retained_WithDefault(entries) ==
  {k \in DOMAIN entries :
     /\ entries[k].type = "object"
     /\ IsString(entries[k].lastSentDate)
     /\ DateValid(entries[k].lastSentDate)}

\* the entries the '^2.0.0' migration retains
retained(entries) ==
  {k \in DOMAIN entries :
     /\ k # DefaultKey
     /\ entries[k].type = "object"
     /\ IsString(entries[k].lastSentDate)
     /\ DateValid(entries[k].lastSentDate)}

\* migrations['^2.0.0']
migrateV2(st) ==
  IF st.kind \in {"undefined", "false"} THEN Migrated(FALSE, st, FALSE)
  ELSE
    LET existing == legacyView(st) IN
    \* existing.device.lastSentDate, Object.entries(existing.projects)
    IF ~existing.device.present \/ ~existing.projects.present
    THEN Migrated(TRUE, st, FALSE)
    \* typeof null === 'object': project.lastSentDate is read on null
    ELSE IF \E k \in DOMAIN existing.projects.entries :
               k # DefaultKey /\ existing.projects.entries[k].type = "null"
    THEN Migrated(TRUE, st, FALSE)
    ELSE
      LET entries == existing.projects.entries
          last == existing.device.lastSentDate
      IN Migrated(FALSE,
           Record([informedAt |-> NULL,
                   device |-> [lastSentDate |->
                                 IF last \in {ABSENT, NULL} THEN NULL ELSE last],
                   projects |-> [k \in retained(entries) |->
                                   [lastSentDate |-> entries[k].lastSentDate]]]),
           TRUE)

\* faulty variant: the guard on a missing value is left out
migrateV3_NoGuard(st) ==
  IF st.kind = "false" THEN Migrated(FALSE, st, FALSE)
  ELSE Migrated(FALSE,
         Record([getDefaultedTelemetryConfig(st).value EXCEPT !.informedAt = NULL]),
         TRUE)

\* migrations['^3.0.0']
migrateV3(st) ==
  IF st.kind \in {"undefined", "false"} THEN Migrated(FALSE, st, FALSE)
  ELSE Migrated(FALSE, Record([st.value EXCEPT !.informedAt = NULL]), TRUE)

\* faulty variant: a migration runs whatever version the store is at
shouldPerformMigration_Always(target, stored) == TRUE

\* the store runs the migrations newer than the version it holds
shouldPerformMigration(target, stored) == stored < target

\* new Conf({ projectVersion, migrations }): the pending migrations run in
\* order; a migration that throws leaves the store as it was
openStore(st, stored) ==
  LET second(m) ==
        IF shouldPerformMigration(3, stored)
        THEN LET n == migrateV3(m.value)
             IN Migrated(n.threw, n.value, m.wrote \/ n.wrote)
        ELSE m
  IN IF shouldPerformMigration(2, stored)
     THEN LET m == migrateV2(st)
          IN IF m.threw THEN Migrated(TRUE, st, FALSE) ELSE second(m)
     ELSE second(Migrated(FALSE, st, FALSE))

\* a store as an earlier or the current release left it
InitMigrate ==
  /\ version \in 1..CurrentVersion
  /\ store \in IF version = 1
               THEN {Undefined, OptedOut} \cup LegacyValues
               ELSE StoredValues
  /\ clock = 0
  /\ todaysDate = ISO(clock)
  /\ op = "init"
  /\ cwdArg = 0
  /\ env = NoEnv
  /\ fired = "none"
  /\ pre = store
  /\ disclosures = 0
  /\ reports = <<>>
  /\ surfaced = FALSE
  /\ crashed = FALSE
  /\ sentToday = NoneSent
  /\ optOut = "never"
  /\ migFrom = version
  /\ migWrote = FALSE
  /\ migThrew = FALSE
  /\ lists = <<>>
  /\ fields = <<>>
  /\ procs = <<>>

\* getTelemetryConfig: the store is opened, which migrates it
getTelemetryConfig ==
  LET m == openStore(store, version) IN
  /\ store' = m.value
  /\ version' = IF m.threw THEN version ELSE CurrentVersion
  /\ migFrom' = version
  /\ migWrote' = m.wrote
  /\ migThrew' = m.threw
  /\ Observed("getTelemetryConfig")
  /\ UNCHANGED <<clock, todaysDate, sentToday, optOut, fieldVars, raceVars>>

NextMigrate == getTelemetryConfig

SpecMigrate == InitMigrate /\ [][NextMigrate]_vars

Opened == op = "getTelemetryConfig"

\* a version-1 record of the declared shape: a device, and objects as
\* project entries, whatever their lastSentDate
TypedLegacy(st) ==
  /\ st.kind = "v1"
  /\ st.value.device.present
  /\ st.value.projects.present
  /\ \A k \in DOMAIN st.value.projects.entries :
        st.value.projects.entries[k].type = "object"

\* C11: migrating a version-1 record yields informedAt null, the legacy
\* device lastSentDate (null when absent), and as projects exactly the legacy
\* entries other than "default" whose lastSentDate is a string that parses
\* as a date, each with its lastSentDate.
C11_MigrationToV2 ==
  (Opened /\ migFrom = 1 /\ TypedLegacy(pre)) =>
     LET entries == pre.value.projects.entries
         last == pre.value.device.lastSentDate
         valid == {k \in (DOMAIN entries) \ {DefaultKey} :
                     /\ entries[k].lastSentDate \notin {ABSENT, NONSTRING}
                     /\ DateValid(entries[k].lastSentDate)}
     IN /\ ~migThrew
        /\ store.kind = "record"
        /\ store.value.informedAt = NULL
        /\ store.value.device.lastSentDate = (IF last = ABSENT THEN NULL ELSE last)
        /\ DOMAIN store.value.projects = valid
        /\ \A k \in valid :
              store.value.projects[k].lastSentDate = entries[k].lastSentDate

\* {default: {...}, 1: a date, 2: no date} yields {1: that date}
C11_Witness ==
  /\ Opened /\ migFrom = 1 /\ TypedLegacy(pre)
  /\ DOMAIN pre.value.projects.entries = {DefaultKey, 1, 2}
  /\ pre.value.projects.entries[DefaultKey].lastSentDate = ISO(0)
  /\ pre.value.projects.entries[1].lastSentDate = ISO(0)
  /\ pre.value.projects.entries[2].lastSentDate = GarbageDate
  /\ DOMAIN store.value.projects = {1}
  /\ store.value.projects[1].lastSentDate = ISO(0)

\* C12: opening a store that holds undefined or false at an older version
\* leaves the value as it is and writes nothing: no record is fabricated.
C12_NothingFabricated ==
  (Opened /\ migFrom < CurrentVersion /\ pre.kind \in {"undefined", "false"}) =>
     /\ store = pre
     /\ ~migWrote
     /\ ~migThrew

C12_Witness ==
  /\ Opened /\ migFrom = 1
  /\ pre = OptedOut
  /\ store = OptedOut
  /\ version = CurrentVersion

\* C13, as claimed: migrating a record of the current shape yields that
\* record, one with informedAt set included.
C13_CurrentShapeUnchanged ==
  (Opened /\ pre.kind = "record") => store = pre

\* C13, amended: opening a store that is at the current version changes and
\* writes nothing; opening any store that migrates leaves it at the current
\* version, so that opening it again changes nothing; a record of the
\* current shape held at version 2 has its informedAt reset to null and is
\* otherwise kept.
C13_CurrentVersionNoOp ==
  /\ (Opened /\ migFrom = CurrentVersion) => (store = pre /\ ~migWrote)
  /\ (Opened /\ ~migThrew) =>
        /\ version = CurrentVersion
        /\ openStore(store, version).value = store
  /\ (Opened /\ migFrom = 2 /\ pre.kind = "record") =>
        store = Record([pre.value EXCEPT !.informedAt = NULL])

C13_Witness ==
  /\ Opened /\ migFrom = CurrentVersion
  /\ pre.kind = "record"
  /\ pre.value.informedAt # NULL
  /\ store = pre

\* C14: the migration of a version-1 value never throws, whatever is
\* missing or malformed in it.
C14_MigrationNeverThrows == Opened => ~migThrew

\* C15, as claimed: the store stops holding a record only through
\* resetTelemetry.
C15_LostOnlyByReset ==
  (pre.kind = "record" /\ store.kind # "record") => op = "resetTelemetry"

\* C15, amended: a record is first persisted by the informing run, as the
\* zero-value record with informedAt set; a persisted record's contents are
\* changed only by runTelemetry; the store stops holding the record only
\* through resetTelemetry (undefined) or disableTelemetry (false).
C15_RecordLifecycle ==
  /\ (pre.kind # "record" /\ store.kind = "record") =>
        /\ Ran
        /\ pre = Undefined
        /\ disclosures = 1
        /\ store.value.informedAt # NULL
        /\ store.value.device = ZeroRecord.device
        /\ store.value.projects = ZeroRecord.projects
  /\ (pre.kind = "record" /\ store.kind = "record" /\ store # pre) => Ran
  /\ (pre.kind = "record" /\ store.kind # "record") =>
        \/ op = "resetTelemetry" /\ store = Undefined
        \/ op = "disableTelemetry" /\ store = OptedOut

\* enableTelemetry on a store that holds a record keeps it
C15_Witness ==
  /\ op = "enableTelemetry"
  /\ Informed(pre)
  /\ pre.value.device.lastSentDate # NULL
  /\ store = pre

\* C20: with invocations one at a time, the informing run changes only
\* informedAt; a run that sends changes nothing but projects[cwd] when it
\* sends a project report and nothing but device.lastSentDate when it sends
\* a device report, and keeps informedAt.
C20_FrameEffects ==
  (Ran /\ NotDisabled /\ pre.kind # "false") =>
     LET before == IF pre.kind = "undefined" THEN ZeroRecord ELSE pre.value
         after == store.value
         others == (DOMAIN before.projects) \ {cwdArg}
     IN /\ store.kind = "record"
        /\ IF before.informedAt = NULL
           THEN /\ after.device = before.device
                /\ after.projects = before.projects
           ELSE /\ after.informedAt = before.informedAt
                /\ NumReports("project") = 0 => after.projects = before.projects
                /\ NumReports("project") > 0 =>
                      /\ DOMAIN after.projects = (DOMAIN before.projects) \cup {cwdArg}
                      /\ \A p \in others : after.projects[p] = before.projects[p]
                /\ NumReports("device") = 0 => after.device = before.device

\* a project send alone: the other project's entry, the device date and
\* informedAt are kept
C20_Witness ==
  /\ Ran /\ NotDisabled /\ Informed(pre)
  /\ NumReports("project") = 1
  /\ NumReports("device") = 0
  /\ \E p \in (DOMAIN pre.value.projects) \ {cwdArg} :
        /\ pre.value.projects[p].lastSentDate # NULL
        /\ store.value.projects[p] = pre.value.projects[p]
  /\ store.value.projects[cwdArg].lastSentDate = todaysDate
  /\ store.value.device = pre.value.device
  /\ store.value.informedAt = pre.value.informedAt

\* ------------------------------------------------------------ field counts
\* the most fields a list has
MaxFields == 3

\* field paths, as strings of letter codes (a = 1 .. z = 26):
\* "id", "paid", "idx", "name"
FieldPaths == {<<9, 4>>, <<16, 1, 9, 4>>, <<9, 4, 24>>, <<14, 1, 13, 5>>}

\* field.__ksTelemetryFieldTypeName: a type name, or none (falsy)
NoTag == ""
Tags == {"text", "integer"}

ListNames == {"A", "B"}

\* list.fields: field path -> type name
ListFields ==
  UNION {[S -> Tags \cup {NoTag}] :
           S \in {T \in SUBSET FieldPaths : Cardinality(T) <= MaxFields}}

InitialisedLists == [ListNames -> ListFields]

\* faulty variant: only the path "id" itself is skipped
endsWith_Exact(s, suffix) == s = suffix

\* String.prototype.endsWith
endsWith(s, suffix) ==
  /\ Len(s) >= Len(suffix)
  /\ SubSeq(s, Len(s) - Len(suffix) + 1, Len(s)) = suffix

\* the body of the inner loop, for one field
countField(count, fieldPath, fieldType) ==
  IF fieldType = NoTag
  THEN IF endsWith(fieldPath, <<9, 4>>) THEN count
       ELSE [count EXCEPT !["unknown"] = @ + 1]
  ELSE [k \in (DOMAIN count) \cup {fieldType} |->
          IF k = fieldType
          THEN (IF k \in DOMAIN count THEN count[k] ELSE 0) + 1
          ELSE count[k]]

\* for (const [fieldPath, field] of Object.entries(list.fields))
RECURSIVE countFields(_, _, _)
countFields(count, list, todo) ==
  IF todo = {} THEN count
  ELSE LET fieldPath == CHOOSE x \in todo : TRUE
       IN countFields(countField(count, fieldPath, list[fieldPath]), list,
                      todo \ {fieldPath})

\* for (const list of Object.values(lists))
RECURSIVE countLists(_, _, _)
countLists(count, all, todo) ==
  IF todo = {} THEN count
  ELSE LET name == CHOOSE x \in todo : TRUE
       IN countLists(countFields(count, all[name], DOMAIN all[name]), all,
                     todo \ {name})

collectFieldCount(all) ==
  countLists([k \in {"unknown"} |-> 0], all, DOMAIN all)

\* the host has initialised its lists
InitFields ==
  /\ store = Undefined
  /\ clock = 0
  /\ todaysDate = ISO(clock)
  /\ op = "init"
  /\ cwdArg = 0
  /\ env = NoEnv
  /\ fired = "none"
  /\ pre = store
  /\ disclosures = 0
  /\ reports = <<>>
  /\ surfaced = FALSE
  /\ crashed = FALSE
  /\ sentToday = NoneSent
  /\ optOut = "never"
  /\ version = CurrentVersion
  /\ migFrom = CurrentVersion
  /\ migWrote = FALSE
  /\ migThrew = FALSE
  /\ lists \in InitialisedLists
  /\ fields = <<>>
  /\ procs = <<>>

\* fields: collectFieldCount(lists), as a project report is built
collectFields ==
  /\ fields' = collectFieldCount(lists)
  /\ op' = "collectFieldCount"
  /\ UNCHANGED <<store, clock, todaysDate, cwdArg, env, fired, pre,
                 disclosures, reports, surfaced, crashed, sentToday, optOut,
                 migVars, lists, raceVars>>

NextFields == collectFields
SpecFields == InitFields /\ [][NextFields]_vars

\* all fields of all lists, as <<list name, field path>>
AllFields == {x \in ListNames \X FieldPaths : x[2] \in DOMAIN lists[x[1]]}
Carrying(t) == {x \in AllFields : lists[x[1]][x[2]] = t}
EndsInId(path) ==
  Len(path) >= 2 /\ path[Len(path) - 1] = 9 /\ path[Len(path)] = 4

\* C17: the mapping collectFieldCount returns holds, for each type name, the
\* number of fields of all lists carrying it (no entry when there is none),
\* and under "unknown" the number of fields with no type name whose path
\* does not end with "id"; it has no other entry.
C17_FieldCounts ==
  op = "collectFieldCount" =>
     /\ DOMAIN fields \subseteq Tags \cup {"unknown"}
     /\ "unknown" \in DOMAIN fields
     /\ fields["unknown"] =
          Cardinality({x \in Carrying(NoTag) : ~EndsInId(x[2])})
     /\ \A t \in Tags :
          IF Carrying(t) = {} THEN t \notin DOMAIN fields
          ELSE t \in DOMAIN fields /\ fields[t] = Cardinality(Carrying(t))

\* A: {name: text, id, idx}, B: {paid}: text = 1, unknown = 1
C17_Witness ==
  /\ op = "collectFieldCount"
  /\ lists["A"] = (<<14, 1, 13, 5>> :> "text" @@ <<9, 4>> :> NoTag
                     @@ <<9, 4, 24>> :> NoTag)
  /\ lists["B"] = (<<16, 1, 9, 4>> :> NoTag)
  /\ fields = ("unknown" :> 1 @@ "text" :> 1)

\* ------------------------------------------- invocations in two processes
\* two CLI processes call runTelemetry on the same day against one store;
\* nothing locks the store between an invocation's get, send and set
Procs == {"A", "B"}

\* an invocation: the step it is at, its cwd, the record it last loaded
Invocation(pc, cwd, telemetry) ==
  [pc |-> pc, cwd |-> cwd, telemetry |-> telemetry]

AllDone == \A p \in DOMAIN procs : procs[p].pc = "done"

InitRace ==
  /\ store \in StoredValues
  /\ clock = MaxDay
  /\ todaysDate = ISO(clock)
  /\ op = "init"
  /\ cwdArg = 0
  /\ env = NoEnv
  /\ fired = "none"
  /\ pre = store
  /\ disclosures = 0
  /\ reports = <<>>
  /\ surfaced = FALSE
  /\ crashed = FALSE
  /\ sentToday = NoneSent
  /\ optOut = "never"
  /\ version = CurrentVersion
  /\ migFrom = CurrentVersion
  /\ migWrote = FALSE
  /\ migThrew = FALSE
  /\ lists = <<>>
  /\ fields = <<>>
  /\ procs \in [Procs -> {Invocation("start", cwd, Undefined) : cwd \in Paths}]

\* what a step of an invocation leaves alone
Stepped(name) ==
  /\ op' = name
  /\ UNCHANGED <<clock, todaysDate, cwdArg, env, fired, pre, reports,
                 surfaced, crashed, optOut, migVars, fieldVars>>

\* runTelemetry: getDefaultedTelemetryConfig(), !telemetry, !informedAt
runLoad(p) ==
  LET telemetry == getDefaultedTelemetryConfig(store) IN
  /\ procs[p].pc = "start"
  /\ procs' = [procs EXCEPT ![p].pc =
                 IF telemetry.kind = "false" THEN "done"
                 ELSE IF ~Truthy(telemetry.value.informedAt) THEN "informLoad"
                 ELSE "projectLoad"]
  /\ Stepped("runLoad")
  /\ UNCHANGED <<store, disclosures, sentToday>>

\* inform: getDefaultedTelemetryConfig(), then the disclosure is displayed
informLoad(p) ==
  LET telemetry == getDefaultedTelemetryConfig(store) IN
  /\ procs[p].pc = "informLoad"
  /\ IF telemetry.kind = "false"
     THEN /\ procs' = [procs EXCEPT ![p].pc = "done"]
          /\ UNCHANGED disclosures
     ELSE /\ procs' = [procs EXCEPT ![p].pc = "informPersist",
                                    ![p].telemetry = telemetry]
          /\ disclosures' = disclosures + 1
  /\ Stepped("informLoad")
  /\ UNCHANGED <<store, sentToday>>

\* inform: telemetry.informedAt = ...; userConfig.set('telemetry', telemetry)
informPersist(p) ==
  /\ procs[p].pc = "informPersist"
  /\ store' = Record(setInformedAt(procs[p].telemetry.value, clock))
  /\ procs' = [procs EXCEPT ![p].pc = "done", ![p].telemetry = Undefined]
  /\ Stepped("informPersist")
  /\ UNCHANGED <<disclosures, sentToday>>

\* sendProjectTelemetryEvent: getDefaultedTelemetryConfig() and the checks
projectLoad(p) ==
  LET telemetry == getDefaultedTelemetryConfig(store) IN
  /\ procs[p].pc = "projectLoad"
  /\ procs' =
       IF telemetry.kind = "false"
       THEN [procs EXCEPT ![p].pc = "deviceLoad"]
       ELSE IF alreadySentToday(
                 projectLastSentDate(telemetry.value, procs[p].cwd), todaysDate)
       THEN [procs EXCEPT ![p].pc = "deviceLoad"]
       ELSE [procs EXCEPT ![p].pc = "projectSend", ![p].telemetry = telemetry]
  /\ Stepped("projectLoad")
  /\ UNCHANGED <<store, disclosures, sentToday>>

\* sendProjectTelemetryEvent: await sendEvent('project', ...)
projectSend(p) ==
  /\ procs[p].pc = "projectSend"
  /\ sentToday' = [sentToday EXCEPT ![procs[p].cwd] = @ + 1]
  /\ procs' = [procs EXCEPT ![p].pc = "projectPersist"]
  /\ Stepped("projectSend")
  /\ UNCHANGED <<store, disclosures>>

\* sendProjectTelemetryEvent: telemetry.projects[cwd] = ...; userConfig.set
projectPersist(p) ==
  /\ procs[p].pc = "projectPersist"
  /\ store' = Record(setProjectLastSentDate(procs[p].telemetry.value,
                                            procs[p].cwd, todaysDate))
  /\ procs' = [procs EXCEPT ![p].pc = "deviceLoad", ![p].telemetry = Undefined]
  /\ Stepped("projectPersist")
  /\ UNCHANGED <<disclosures, sentToday>>

\* sendDeviceTelemetryEvent: getDefaultedTelemetryConfig() and the checks
deviceLoad(p) ==
  LET telemetry == getDefaultedTelemetryConfig(store) IN
  /\ procs[p].pc = "deviceLoad"
  /\ procs' =
       IF telemetry.kind = "false"
       THEN [procs EXCEPT ![p].pc = "done"]
       ELSE IF alreadySentToday(telemetry.value.device.lastSentDate, todaysDate)
       THEN [procs EXCEPT ![p].pc = "done"]
       ELSE [procs EXCEPT ![p].pc = "deviceSend", ![p].telemetry = telemetry]
  /\ Stepped("deviceLoad")
  /\ UNCHANGED <<store, disclosures, sentToday>>

\* sendDeviceTelemetryEvent: await sendEvent('device', ...)
deviceSend(p) ==
  /\ procs[p].pc = "deviceSend"
  /\ sentToday' = [sentToday EXCEPT ![Device] = @ + 1]
  /\ procs' = [procs EXCEPT ![p].pc = "devicePersist"]
  /\ Stepped("deviceSend")
  /\ UNCHANGED <<store, disclosures>>

\* sendDeviceTelemetryEvent: telemetry.device = ...; userConfig.set
devicePersist(p) ==
  /\ procs[p].pc = "devicePersist"
  /\ store' = Record(setDeviceLastSentDate(procs[p].telemetry.value, todaysDate))
  /\ procs' = [procs EXCEPT ![p].pc = "done", ![p].telemetry = Undefined]
  /\ Stepped("devicePersist")
  /\ UNCHANGED <<disclosures, sentToday>>

\* the two invocations, their steps interleaved in any order
NextRace ==
  \/ \E p \in Procs : runLoad(p)
  \/ \E p \in Procs : informLoad(p)
  \/ \E p \in Procs : informPersist(p)
  \/ \E p \in Procs : projectLoad(p)
  \/ \E p \in Procs : projectSend(p)
  \/ \E p \in Procs : projectPersist(p)
  \/ \E p \in Procs : deviceLoad(p)
  \/ \E p \in Procs : deviceSend(p)
  \/ \E p \in Procs : devicePersist(p)

SpecRace == InitRace /\ [][NextRace]_vars

\* the same, with the telemetry commands of a further process in between
NextRaceCtl ==
  \/ \E p \in Procs : runLoad(p)
  \/ \E p \in Procs : informLoad(p)
  \/ \E p \in Procs : informPersist(p)
  \/ \E p \in Procs : projectLoad(p)
  \/ \E p \in Procs : projectSend(p)
  \/ \E p \in Procs : projectPersist(p)
  \/ \E p \in Procs : deviceLoad(p)
  \/ \E p \in Procs : deviceSend(p)
  \/ \E p \in Procs : devicePersist(p)
  \/ enableTelemetry
  \/ disableTelemetry
  \/ resetTelemetry

SpecRaceCtl == InitRace /\ [][NextRaceCtl]_vars

\* C16, as claimed: each subject has at most two reports from the two
\* invocations together, and the race has no other effect on the store:
\* once both are done, every project that was reported holds today's date,
\* as it would after the two invocations one after the other.
C16_OnlyDoubleSend ==
  /\ \A s \in Subjects : sentToday[s] <= 2
  /\ AllDone =>
        \A path \in Paths :
           sentToday[path] > 0 => StoredProjectDate(store, path) = todaysDate

\* C16, amended: each subject has at most two reports from the two
\* invocations together and the disclosure is displayed at most twice; an
\* opted-out store is left alone; an informed record keeps its informedAt,
\* each lastSentDate ends as it was or as today's date, and once both
\* invocations are done the device and the project of at least one of them
\* hold today's date (the other's date stamp may have been overwritten);
\* a store not yet informed ends informed.
C16_RaceOutcome ==
  /\ \A s \in Subjects : sentToday[s] <= 2
  /\ disclosures <= 2
  /\ pre = OptedOut => (store = pre /\ sentToday = NoneSent /\ disclosures = 0)
  /\ Informed(pre) =>
        /\ store.kind = "record"
        /\ store.value.informedAt = pre.value.informedAt
        /\ disclosures = 0
        /\ store.value.device.lastSentDate \in
              {pre.value.device.lastSentDate, todaysDate}
        /\ \A path \in Paths :
              StoredProjectDate(store, path) \in
                 {StoredProjectDate(pre, path), todaysDate}
  /\ (AllDone /\ Informed(pre)) =>
        /\ store.value.device.lastSentDate = todaysDate
        /\ \E p \in Procs :
              StoredProjectDate(store, procs[p].cwd) = todaysDate
  /\ (AllDone /\ NotInformed(pre)) => (Informed(store) /\ disclosures >= 1)

\* both invocations sent a report for the same project and for the device
C16_Witness ==
  /\ AllDone
  /\ Informed(pre)
  /\ procs["A"].cwd = procs["B"].cwd
  /\ sentToday[procs["A"].cwd] = 2
  /\ sentToday[Device] = 2

\* C18: once disableTelemetry has written false, the stored value stays
\* false until enableTelemetry or resetTelemetry runs, and no invocation
\* sends a report in the meantime.
C18_OptOutTerminal ==
  optOut = "disabled" => (store = OptedOut /\ sentToday = NoneSent)

\* C19: the record a send step works on has a non-null informedAt, and no
\* send step persists a record whose informedAt is null.
C19_NoticeBeforeSend ==
  /\ \A p \in DOMAIN procs :
        procs[p].pc \in {"projectSend", "projectPersist",
                         "deviceSend", "devicePersist"}
           => procs[p].telemetry.value.informedAt # NULL
  /\ op \in {"projectPersist", "devicePersist"} => store.value.informedAt # NULL
=============================================================================
